---- MODULE Spec2Model ----
(***************************************************************************)
(* Model of surfaces.h: the Point/Surface combinator library.              *)
(*                                                                         *)
(* A Real is modelled as an exact fraction <<n, d>> in lowest terms with   *)
(* d > 0; the non-finite doubles are <<1, 0>> (+infinity), <<-1, 0>>       *)
(* (-infinity) and <<0, 0>> (NaN).  Rounding and overflow of double        *)
(* arithmetic are not modelled: all sampled values are small dyadic        *)
(* fractions, on which the double operations used here are exact.          *)
(*                                                                         *)
(* A Surface is a chain of closures: f[1] is the generator and f[k], k > 1,*)
(* is the k-th combinator wrapped around it, so f[Len(f)] is outermost.    *)
(* Every closure is a record [op, a, b] holding its captured parameters.   *)
(***************************************************************************)
EXTENDS Integers, Sequences, FiniteSets

VARIABLES
    call,   \* "surface": a Surface is sampled; "compose": a composed function is called
    f,      \* the Surface being sampled
    p,      \* the Point it is sampled at
    fs,     \* the functions handed to compose, in argument order
    x,      \* the argument of the composed function
    ret,    \* the value returned
    pc      \* "ready" before the call, "done" after it

vars == <<call, f, p, fs, x, ret, pc>>

(* ---------------------------- bounds ----------------------------------- *)
MaxCoord == 4      \* sampled coordinates are n/2 for n in -MaxCoord..MaxCoord
MaxDepth == 2      \* combinators wrapped around a generator
MaxArity == 3      \* functions passed to compose

(* ---------------------------- Real ------------------------------------- *)
Abs(n) == IF n < 0 THEN -n ELSE n

RECURSIVE GCD(_, _)
GCD(m, n) == IF n = 0 THEN m ELSE GCD(n, m % n)

Norm(n, d) ==
    LET g == GCD(Abs(n), Abs(d))
        sg == IF d < 0 THEN -1 ELSE 1
    IN  IF g = 0 THEN <<0, 0>> ELSE <<sg * (n \div g), sg * (d \div g)>>

Real(n) == <<n, 1>>
Half(n) == Norm(n, 2)
Zero == Real(0)
One == Real(1)
Two == Real(2)
INFINITY == <<1, 0>>
NaN == <<0, 0>>

IsFinite(r) == r[2] # 0
IsNaN(r) == r = NaN
Sign(r) == IF r[1] > 0 THEN 1 ELSE IF r[1] < 0 THEN -1 ELSE 0

RNeg(r) == <<-r[1], r[2]>>

RAdd(r, q) ==
    IF IsFinite(r) /\ IsFinite(q) THEN Norm(r[1] * q[2] + q[1] * r[2], r[2] * q[2])
    ELSE IF IsNaN(r) \/ IsNaN(q) THEN NaN
    ELSE IF ~IsFinite(r) /\ ~IsFinite(q) /\ r # q THEN NaN
    ELSE IF IsFinite(r) THEN q ELSE r

RSub(r, q) == RAdd(r, RNeg(q))

RMul(r, q) ==
    IF IsFinite(r) /\ IsFinite(q) THEN Norm(r[1] * q[1], r[2] * q[2])
    ELSE IF IsNaN(r) \/ IsNaN(q) \/ Sign(r) = 0 \/ Sign(q) = 0 THEN NaN
    ELSE <<Sign(r) * Sign(q), 0>>

\* operands are finite; a zero divisor gives +-infinity or NaN as in IEEE-754
RDiv(r, q) == Norm(r[1] * q[2], r[2] * q[1])

\* comparisons of finite values
RLe(r, q) == r[1] * q[2] <= q[1] * r[2]
RLt(r, q) == r[1] * q[2] < q[1] * r[2]

\* std::floor, std::trunc on finite values
floor(r) == Real(r[1] \div r[2])
trunc(r) == IF r[1] >= 0 THEN Real(r[1] \div r[2]) ELSE Real(-((-r[1]) \div r[2]))

\* std::fmod(r, q) for finite r and q > 0: r - trunc(r / q) * q
fmod(r, q) == RSub(r, RMul(trunc(RDiv(r, q)), q))

\* std::sqrt on the values whose root is a fraction
ISqrt(n) == CHOOSE k \in 0..n : k * k = n
HasSqrt(r) == /\ r[1] >= 0
              /\ \E k \in 0..r[1] : k * k = r[1]
              /\ \E k \in 0..r[2] : k * k = r[2]
sqrt(r) == <<ISqrt(r[1]), ISqrt(r[2])>>

\* std::cos, std::sin of (deg / 180) * pi for deg a multiple of 90
Quarter(deg) == (deg[1] \div 90) % 4
cos(deg) == Real(<<1, 0, -1, 0>>[Quarter(deg) + 1])
sin(deg) == Real(<<0, 1, 0, -1>>[Quarter(deg) + 1])

(* ---------------------------- Point ------------------------------------ *)
Point(px, py) == [x |-> px, y |-> py]

(* ---------------------------- generators ------------------------------- *)
plain(q) == Zero

slope(q) == q.x

steps(s, q) == IF RLe(s, Zero) THEN Zero ELSE floor(RDiv(q.x, s))

\* stripes with the band index floor(x/s) on both sides of 0
stripes_floor(s, q) ==
    IF RLe(s, Zero) THEN Zero
    ELSE IF RLt(Zero, q.x) THEN fmod(floor(RDiv(q.x, s)), Two)
         ELSE fmod(floor(RDiv(RNeg(q.x), s)), Two)

\* stripes applying the exact-multiple adjustment for x <= 0 as well
stripes_sym(s, q) ==
    IF RLe(s, Zero) THEN Zero
    ELSE IF RLt(Zero, q.x)
         THEN fmod(IF trunc(RDiv(q.x, s)) = RDiv(q.x, s)
                   THEN floor(RDiv(q.x, s))
                   ELSE RAdd(floor(RDiv(q.x, s)), One), Two)
         ELSE fmod(IF trunc(RDiv(RNeg(q.x), s)) = RDiv(RNeg(q.x), s)
                   THEN floor(RDiv(RNeg(q.x), s))
                   ELSE RAdd(floor(RDiv(RNeg(q.x), s)), One), Two)

\* stripes returning the band index itself, without fmod
stripes_nomod(s, q) ==
    IF RLe(s, Zero) THEN Zero
    ELSE IF RLt(Zero, q.x)
         THEN IF trunc(RDiv(q.x, s)) = RDiv(q.x, s)
              THEN floor(RDiv(q.x, s))
              ELSE RAdd(floor(RDiv(q.x, s)), One)
         ELSE floor(RDiv(RNeg(q.x), s))

\* stripes adding 1 to the band index for every x > 0
stripes_always_plus(s, q) ==
    IF RLe(s, Zero) THEN Zero
    ELSE IF RLt(Zero, q.x) THEN fmod(RAdd(floor(RDiv(q.x, s)), One), Two)
         ELSE fmod(floor(RDiv(RNeg(q.x), s)), Two)

stripes(s, q) ==
    IF RLe(s, Zero) THEN Zero
    ELSE IF RLt(Zero, q.x)
         THEN fmod(IF trunc(RDiv(q.x, s)) = RDiv(q.x, s)
                   THEN floor(RDiv(q.x, s))
                   ELSE RAdd(floor(RDiv(q.x, s)), One), Two)
         ELSE fmod(floor(RDiv(RNeg(q.x), s)), Two)

\* checker without the + 1
checker_noplus(s, q) ==
    IF RLe(s, Zero) THEN Zero
    ELSE fmod(RAdd(stripes(s, Point(RNeg(q.x), RNeg(q.y))),
                   stripes(s, Point(RNeg(q.y), RNeg(q.x)))), Two)

\* checker sampling stripes at the point itself instead of its reflections
checker_noreflect(s, q) ==
    IF RLe(s, Zero) THEN Zero
    ELSE fmod(RAdd(RAdd(stripes(s, Point(q.x, q.y)),
                        stripes(s, Point(q.y, q.x))), One), Two)

checker(s, q) ==
    IF RLe(s, Zero) THEN Zero
    ELSE fmod(RAdd(RAdd(stripes(s, Point(RNeg(q.x), RNeg(q.y))),
                        stripes(s, Point(RNeg(q.y), RNeg(q.x)))), One), Two)

sqr(q) == RMul(q.x, q.x)

\* rings testing the origin before the period
rings_origin_first(s, q) ==
    IF q.x = Zero /\ q.y = Zero THEN One
    ELSE IF RLe(s, Zero) THEN Zero
    ELSE stripes(s, Point(sqrt(RAdd(RMul(q.x, q.x), RMul(q.y, q.y))), Zero))

rings(s, q) ==
    IF RLe(s, Zero) THEN Zero
    ELSE IF q.x = Zero /\ q.y = Zero THEN One
    ELSE stripes(s, Point(sqrt(RAdd(RMul(q.x, q.x), RMul(q.y, q.y))), Zero))

ellipse(a, b, q) ==
    IF RLe(a, Zero) \/ RLe(b, Zero) THEN Zero
    ELSE IF RLe(RAdd(RDiv(RMul(q.x, q.x), RMul(a, a)),
                     RDiv(RMul(q.y, q.y), RMul(b, b))), One)
         THEN One ELSE Zero

rectangle(a, b, q) ==
    IF RLe(a, Zero) \/ RLe(b, Zero) THEN Zero
    ELSE IF /\ RLe(RNeg(a), q.x) /\ RLe(q.x, a)
            /\ RLe(RNeg(b), q.y) /\ RLe(q.y, b)
         THEN One ELSE Zero

(* ---------------------------- combinators ------------------------------ *)
\* g is the wrapped surface (a chain), Eval(g, q) its value at q
RECURSIVE Eval(_, _)

\* rotate with the sign of the sine terms exchanged
rotate_ccw(g, deg, q) ==
    Eval(g, Point(RSub(RMul(q.x, cos(deg)), RMul(q.y, sin(deg))),
                  RAdd(RMul(q.y, cos(deg)), RMul(q.x, sin(deg)))))

rotate(g, deg, q) ==
    Eval(g, Point(RAdd(RMul(q.x, cos(deg)), RMul(q.y, sin(deg))),
                  RSub(RMul(q.y, cos(deg)), RMul(q.x, sin(deg)))))

translate(g, v, q) == Eval(g, Point(RSub(q.x, v.x), RSub(q.y, v.y)))

\* scale multiplying the coordinates instead of dividing them
scale_mul(g, s, q) ==
    IF s.x = Zero \/ s.y = Zero THEN INFINITY
    ELSE Eval(g, Point(RMul(q.x, s.x), RMul(q.y, s.y)))

scale(g, s, q) ==
    IF s.x = Zero \/ s.y = Zero THEN INFINITY
    ELSE Eval(g, Point(RDiv(q.x, s.x), RDiv(q.y, s.y)))

invert(g, q) == Eval(g, Point(q.y, q.x))

flip(g, q) == Eval(g, Point(RNeg(q.x), q.y))

mul(g, c, q) == RMul(Eval(g, q), c)

add(g, c, q) == RAdd(Eval(g, q), c)

Closure(op, a, b) == [op |-> op, a |-> a, b |-> b]
Outer(g) == g[Len(g)]
Inner(g) == SubSeq(g, 1, Len(g) - 1)

\* invoking a Surface value with a Point
Eval(g, q) ==
    LET c == Outer(g) IN
    CASE c.op = "plain" -> plain(q)
      [] c.op = "slope" -> slope(q)
      [] c.op = "steps" -> steps(c.a, q)
      [] c.op = "stripes" -> stripes(c.a, q)
      [] c.op = "checker" -> checker(c.a, q)
      [] c.op = "sqr" -> sqr(q)
      [] c.op = "rings" -> rings(c.a, q)
      [] c.op = "ellipse" -> ellipse(c.a, c.b, q)
      [] c.op = "rectangle" -> rectangle(c.a, c.b, q)
      [] c.op = "rotate" -> rotate(Inner(g), c.a, q)
      [] c.op = "translate" -> translate(Inner(g), Point(c.a, c.b), q)
      [] c.op = "scale" -> scale(Inner(g), Point(c.a, c.b), q)
      [] c.op = "invert" -> invert(Inner(g), q)
      [] c.op = "flip" -> flip(Inner(g), q)
      [] c.op = "mul" -> mul(Inner(g), c.a, q)
      [] c.op = "add" -> add(Inner(g), c.a, q)

(* ---------------------------- compose ---------------------------------- *)
\* the callables handed to compose: functions from Real to Real
Funcs == {"inc", "dbl", "neg", "abs"}

Apply(h, v) ==
    CASE h = "inc" -> RAdd(v, One)
      [] h = "dbl" -> RMul(v, Two)
      [] h = "neg" -> RNeg(v)
      [] h = "abs" -> IF v[1] < 0 THEN RNeg(v) ELSE v

\* compose applying the last function first
RECURSIVE compose_rtl(_, _)
compose_rtl(hs, v) ==
    IF Len(hs) = 0 THEN v
    ELSE IF Len(hs) = 1 THEN Apply(hs[1], v)
    ELSE Apply(hs[1], compose_rtl(Tail(hs), v))

RECURSIVE compose_details(_, _)
compose_details(hs, v) ==
    IF Len(hs) = 0 THEN v
    ELSE IF Len(hs) = 1 THEN Apply(hs[1], v)
    ELSE compose_details(Tail(hs), Apply(hs[1], v))

compose(hs, v) == compose_details(hs, v)

(* ---------------------------- inputs ----------------------------------- *)
Coords == {Half(n) : n \in -MaxCoord..MaxCoord}
Points == {Point(cx, cy) : cx \in Coords, cy \in Coords} \cup {Point(Real(5), Zero)}
Periods == {Real(-1), Zero, Half(1), One, Half(3), Two}

Generators ==
    {<<Closure(op, Zero, Zero)>> : op \in {"plain", "slope", "sqr"}}
    \cup {<<Closure(op, s, Zero)>> :
              op \in {"steps", "stripes", "checker", "rings"}, s \in Periods}
    \cup {<<Closure(op, a, b)>> :
              op \in {"ellipse", "rectangle"}, a \in Periods, b \in Periods}

Combinators ==
    {Closure("rotate", Real(d), Zero) : d \in {90, 180}}
    \cup {Closure("translate", One, Zero), Closure("translate", Half(-1), One)}
    \cup {Closure("scale", Zero, One), Closure("scale", Two, Half(-1))}
    \cup {Closure("invert", Zero, Zero), Closure("flip", Zero, Zero)}
    \cup {Closure("mul", Real(-2), Zero), Closure("add", One, Zero)}

\* the generators that get wrapped in combinators
Wrapped ==
    {<<Closure("slope", Zero, Zero)>>, <<Closure("sqr", Zero, Zero)>>,
     <<Closure("stripes", One, Zero)>>, <<Closure("checker", One, Zero)>>}

RECURSIVE Chains(_)
Chains(n) ==
    IF n = 0 THEN Wrapped
    ELSE Chains(n - 1) \cup
         {Append(g, c) : g \in {h \in Chains(n - 1) : Len(h) = n}, c \in Combinators}

Surfaces == Generators \cup Chains(MaxDepth)

\* rings takes the root of x*x + y*y: sample it where the root is a fraction
Samplable(g, q) ==
    (Outer(g).op = "rings" /\ RLt(Zero, Outer(g).a))
        => HasSqrt(RAdd(RMul(q.x, q.x), RMul(q.y, q.y)))

RECURSIVE Pipelines(_)
Pipelines(n) ==
    IF n = 0 THEN {<<>>}
    ELSE Pipelines(n - 1) \cup
         {Append(hs, h) : hs \in {k \in Pipelines(n - 1) : Len(k) = n - 1}, h \in Funcs}

(* ---------------------------- state machine ---------------------------- *)
Init ==
    /\ pc = "ready"
    /\ ret = Zero
    /\ \/ /\ call = "surface"
          /\ f \in Surfaces
          /\ p \in Points
          /\ Samplable(f, p)
          /\ fs = <<>>
          /\ x = Zero
       \/ /\ call = "compose"
          /\ fs \in Pipelines(MaxArity)
          /\ x \in Coords
          /\ f = <<>>
          /\ p = Point(Zero, Zero)

Sampling(op) == pc = "ready" /\ call = "surface" /\ Outer(f).op = op

Return(v) == ret' = v /\ pc' = "done" /\ UNCHANGED <<call, f, p, fs, x>>

CallPlain == Sampling("plain") /\ Return(plain(p))
CallSlope == Sampling("slope") /\ Return(slope(p))
CallSteps == Sampling("steps") /\ Return(steps(Outer(f).a, p))
CallStripes == Sampling("stripes") /\ Return(stripes(Outer(f).a, p))
CallChecker == Sampling("checker") /\ Return(checker(Outer(f).a, p))
CallSqr == Sampling("sqr") /\ Return(sqr(p))
CallRings == Sampling("rings") /\ Return(rings(Outer(f).a, p))
CallEllipse == Sampling("ellipse") /\ Return(ellipse(Outer(f).a, Outer(f).b, p))
CallRectangle == Sampling("rectangle") /\ Return(rectangle(Outer(f).a, Outer(f).b, p))
CallRotate == Sampling("rotate") /\ Return(rotate(Inner(f), Outer(f).a, p))
CallTranslate ==
    Sampling("translate") /\ Return(translate(Inner(f), Point(Outer(f).a, Outer(f).b), p))
CallScale ==
    Sampling("scale") /\ Return(scale(Inner(f), Point(Outer(f).a, Outer(f).b), p))
CallInvert == Sampling("invert") /\ Return(invert(Inner(f), p))
CallFlip == Sampling("flip") /\ Return(flip(Inner(f), p))
CallMul == Sampling("mul") /\ Return(mul(Inner(f), Outer(f).a, p))
CallAdd == Sampling("add") /\ Return(add(Inner(f), Outer(f).a, p))
CallCompose == pc = "ready" /\ call = "compose" /\ Return(compose(fs, x))

Next ==
    \/ CallPlain \/ CallSlope \/ CallSteps \/ CallStripes \/ CallChecker
    \/ CallSqr \/ CallRings \/ CallEllipse \/ CallRectangle
    \/ CallRotate \/ CallTranslate \/ CallScale \/ CallInvert \/ CallFlip
    \/ CallMul \/ CallAdd \/ CallCompose

Spec == Init /\ [][Next]_vars

TypeOK ==
    /\ pc \in {"ready", "done"}
    /\ call \in {"surface", "compose"}
    /\ Len(ret) = 2

(* ---------------------------- properties ------------------------------- *)
Done == pc = "done"
\* the call just made sampled the bare generator op
Gen(op) == Done /\ call = "surface" /\ Len(f) = 1 /\ f[1].op = op
\* the call just made sampled a surface whose outermost combinator is op
Comb(op) == Done /\ call = "surface" /\ Len(f) > 1 /\ Outer(f).op = op
Positive(s) == RLt(Zero, s)
FloorInt(r) == r[1] \div r[2]
OneMinus(r) == RSub(One, r)

\* C1 (as stated): stripes(1) returns 0.0 at Point(0.5, 0) and 1.0 at
\* Point(1.5, 0).
C1_Original ==
    (Gen("stripes") /\ f[1].a = One /\ p.y = Zero)
        => /\ (p.x = Half(1) => ret = Zero)
           /\ (p.x = Half(3) => ret = One)

\* C1 (amended): stripes(1) returns 1.0 at Point(0.5, 0) and 0.0 at
\* Point(1.5, 0).
C1_Stripes1Values ==
    (Gen("stripes") /\ f[1].a = One /\ p.y = Zero)
        => /\ (p.x = Half(1) => ret = One)
           /\ (p.x = Half(3) => ret = Zero)

C1_Witness ==
    Gen("stripes") /\ f[1].a = One /\ p = Point(Half(1), Zero) /\ ret = One

\* the band index of the tie-break rule, as an integer
BandIndex(s, px) ==
    IF px[1] > 0
    THEN IF RDiv(px, s)[2] = 1 THEN FloorInt(RDiv(px, s)) ELSE FloorInt(RDiv(px, s)) + 1
    ELSE FloorInt(RDiv(RNeg(px), s))

\* C2: for s > 0, stripes(s)(p) is idx mod 2, where idx is floor(p.x/s) for
\* p.x > 0 an exact multiple of s, floor(p.x/s) + 1 for any other p.x > 0, and
\* floor(-p.x/s) for p.x <= 0; the result is the same for every p.y.
C2_StripesBandIndex ==
    (Gen("stripes") /\ Positive(f[1].a))
        => /\ ret = Real(BandIndex(f[1].a, p.x) % 2)
           /\ \A cy \in Coords : stripes(f[1].a, Point(p.x, cy)) = ret

C2_Witness ==
    /\ Gen("stripes") /\ f[1].a = Half(3) /\ p.x = Two /\ p.y = Half(-1)
    /\ ret = Zero

\* the two reflected samples checker takes of stripes, as integers
ReflA(s, q) == stripes(s, Point(RNeg(q.x), RNeg(q.y)))[1]
ReflB(s, q) == stripes(s, Point(RNeg(q.y), RNeg(q.x)))[1]

\* C3 (as stated): for s > 0, checker(s)(p) is the sum of stripes(s) at
\* Point(-p.x, -p.y) and at Point(-p.y, -p.x), taken mod 2.
C3_Original ==
    (Gen("checker") /\ Positive(f[1].a))
        => ret = Real((ReflA(f[1].a, p) + ReflB(f[1].a, p)) % 2)

\* C3 (amended): for s > 0, checker(s)(p) is the sum of stripes(s) at
\* Point(-p.x, -p.y) and at Point(-p.y, -p.x), plus 1, taken mod 2.
C3_CheckerSumPlusOne ==
    (Gen("checker") /\ Positive(f[1].a))
        => ret = Real((ReflA(f[1].a, p) + ReflB(f[1].a, p) + 1) % 2)

C3_Witness ==
    /\ Gen("checker") /\ f[1].a = One /\ p = Point(Half(1), Half(-1))
    /\ ReflA(f[1].a, p) + ReflB(f[1].a, p) = 1
    /\ ret = Zero

\* C4: steps, stripes, checker and rings return 0 at every point when
\* s <= 0, and ellipse and rectangle return 0 at every point when a <= 0 or
\* b <= 0, the origin included.
C4_DegenerateIsZero ==
    /\ \A op \in {"steps", "stripes", "checker", "rings"} :
           (Gen(op) /\ RLe(f[1].a, Zero)) => ret = Zero
    /\ \A op \in {"ellipse", "rectangle"} :
           (Gen(op) /\ (RLe(f[1].a, Zero) \/ RLe(f[1].b, Zero))) => ret = Zero

C4_Witness ==
    Gen("rings") /\ f[1].a = Real(-1) /\ p = Point(Zero, Zero) /\ ret = Zero

RECURSIVE Pipeline(_, _)
Pipeline(hs, v) ==
    IF hs = <<>> THEN v
    ELSE Apply(hs[Len(hs)], Pipeline(SubSeq(hs, 1, Len(hs) - 1), v))

\* C7: compose(f1, ..., fn)(v) is fn(...f2(f1(v))...); compose(g) behaves as
\* g and compose() is the identity.
C7_ComposeLeftToRight ==
    (Done /\ call = "compose")
        => /\ ret = Pipeline(fs, x)
           /\ (Len(fs) = 1 => ret = Apply(fs[1], x))
           /\ (Len(fs) = 0 => ret = x)

C7_Witness ==
    /\ Done /\ call = "compose" /\ fs = <<"inc", "dbl">> /\ x = One
    /\ ret = Real(4)
    /\ Apply("inc", Apply("dbl", x)) = Real(3)

\* the rotation of the plane by the angle th, in degrees, a multiple of 90
Rotation(q, th) ==
    Point(RSub(RMul(q.x, cos(th)), RMul(q.y, sin(th))),
          RAdd(RMul(q.x, sin(th)), RMul(q.y, cos(th))))
Minus(q, v) == Point(RSub(q.x, v.x), RSub(q.y, v.y))
\* the surface two combinators below the outermost one
Below2(g) == SubSeq(g, 1, Len(g) - 2)
Second(g) == g[Len(g) - 1]
Swapped(g) == Below2(g) \o <<Outer(g), Second(g)>>

\* C8: with R the rotation by -deg degrees, rotate(translate(g, v), deg)(p)
\* is g(R(p) - v) and translate(rotate(g, deg), v)(p) is g(R(p - v)).
C8_ChainOrder ==
    /\ (Comb("rotate") /\ Len(f) > 2 /\ Second(f).op = "translate")
           => ret = Eval(Below2(f),
                         Minus(Rotation(p, RNeg(Outer(f).a)),
                               Point(Second(f).a, Second(f).b)))
    /\ (Comb("translate") /\ Len(f) > 2 /\ Second(f).op = "rotate")
           => ret = Eval(Below2(f),
                         Rotation(Minus(p, Point(Outer(f).a, Outer(f).b)),
                                  RNeg(Second(f).a)))

\* a sample at which the two chains return different values
C8_Witness ==
    /\ Comb("rotate") /\ Len(f) > 2 /\ Second(f).op = "translate"
    /\ Outer(f).a = Real(90)
    /\ ret # Eval(Swapped(f), p)

\* C9: for s > 0, stripes(s)(Point(p.x + s, p.y)) = 1 - stripes(s)(p) at every
\* point p.
C9_StripesAlternate ==
    (Gen("stripes") /\ Positive(f[1].a))
        => stripes(f[1].a, Point(RAdd(p.x, f[1].a), p.y)) = OneMinus(ret)

\* p.x and p.x + s lie on opposite sides of zero
C9_Witness ==
    /\ Gen("stripes") /\ f[1].a = Two /\ p.x = Half(-1)
    /\ ret = Zero
    /\ stripes(f[1].a, Point(RAdd(p.x, f[1].a), p.y)) = One

SameParity(m, n) == (m % 2) = (n % 2)

\* C10: for s > 0, checker(s)(p) is 1 when floor(p.x/s) and floor(p.y/s)
\* have the same parity and 0 otherwise; the cells next to p's cell to the
\* right and above have the other value, the cell of the origin is 1, and
\* checker(s)(Point(p.y, p.x)) = checker(s)(p).
C10_Checkerboard ==
    (Gen("checker") /\ Positive(f[1].a))
        => LET s == f[1].a IN
           /\ ret = IF SameParity(FloorInt(RDiv(p.x, s)), FloorInt(RDiv(p.y, s)))
                    THEN One ELSE Zero
           /\ checker(s, Point(RAdd(p.x, s), p.y)) = OneMinus(ret)
           /\ checker(s, Point(p.x, RAdd(p.y, s))) = OneMinus(ret)
           /\ checker(s, Point(p.y, p.x)) = ret
           /\ (/\ RLe(Zero, p.x) /\ RLt(p.x, s) /\ RLe(Zero, p.y) /\ RLt(p.y, s))
                  => ret = One

C10_Witness ==
    /\ Gen("checker") /\ f[1].a = One /\ p = Point(Half(-1), Half(1))
    /\ ret = Zero
    /\ checker(f[1].a, Point(RAdd(p.x, f[1].a), p.y)) = One

====
